---- MODULE Spec2Model ----
(***************************************************************************)
(* A model of bcml/__main__.py: the Api entry points that install, update, *)
(* reorder and remerge mods (with the win_or_lose result envelope), and    *)
(* the single-instance argument relay (oneclick_listener / main).          *)
(*                                                                         *)
(* Api handlers run one at a time (the presentation layer serialises its   *)
(* calls); every handler is a small program-counter machine whose steps    *)
(* follow the source lines.  The elements of a list parameter              *)
(* (params["mods"], params["moves"], params["installs"]) are drawn when    *)
(* the loop reaches them: the code never looks ahead in these lists, so    *)
(* this is the same as drawing the whole list when the call starts.        *)
(***************************************************************************)
EXTENDS Integers, Sequences, FiniteSets, TLC

\* ------------------------------------------------------------- bounds
\* Largest priority a caller may request / an install may be given.
MaxPriority == 3
\* Largest number of elements of one list parameter (mods, moves, installs).
MaxBatch == 2

\* ------------------------------------------------------- the universe
\* Names of the registered mergers (mergers.get_mergers()), and the
\* friendly name remerge() selects a merger by.
Mergers == {"m1", "m2"}

\* Mod names.
Names == {"a", "b"}

\* Package files a caller may pass.  "bad.bnp" is a path install.install_mod
\* rejects; "a2.bnp" is another version of mod "a".
Packages == {"a.bnp", "a2.bnp", "b.bnp", "bad.bnp"}

PkgValid(p) == p # "bad.bnp"

PkgName(p) ==
    CASE p = "a.bnp" -> "a"
      [] p = "a2.bnp" -> "a"
      [] p = "b.bnp" -> "b"
      [] OTHER -> "?"

\* The mergers that log changes for the mod a package installs.
PkgLogs(p) ==
    CASE p = "a.bnp" -> {"m1"}
      [] p = "a2.bnp" -> {"m2"}
      [] p = "b.bnp" -> {"m1", "m2"}
      [] OTHER -> {}

\* Declared dependency edges: m2 runs after m1.
Rank(name) == IF name = "m1" THEN 1 ELSE 2

VARIABLES
    installed,  \* names of the mods in the modpack directory
    priority,   \* priority[n]: priority of installed mod n (0 when absent)
    enabled,    \* enabled[n]
    logged,     \* logged[n]: names of the mergers with logged changes for n
    op,         \* the running (or last) Api entry point
    outer,      \* "mod_action" while update_mod runs under mod_action
    pc,         \* position inside the handler; "done" when no call runs
    ev,         \* what the current call has done so far, in order
    mods,       \* the handler's local list `mods`
    todo,       \* mergers the current sorted for loop has still to execute
    remergers,  \* update_mod's local set `remergers`
    pool,       \* number of Pool() objects the call has created
    poolOpen,   \* inside a `with Pool(...)` block
    nitems,     \* list elements consumed so far by the current call
    target,     \* the call's params: the mod (its priority and logged
                \* mergers when the call started), the file or name picked
    before,     \* the InstallStack when the current call started
    exc,        \* the exception propagating out of the handler
    ret,        \* what the caller received from the last call
    innerRet,   \* what update_mod returned to mod_action
    fret,       \* the value the wrapped function itself returned
    logN        \* records appended to bcml.log by the current call

orchVars == <<installed, priority, enabled, logged, op, outer, pc, ev, mods,
              todo, remergers, pool, poolOpen, nitems, target, before, exc, ret,
              innerRet, fret, logN>>

\* The relay's state, one entry per launched process.
VARIABLES
    mainPc,     \* mainPc[p]: "off", "cleaned", "spawned", "gui", "ended",
                \*            "killed" (the thread was cut off by os._exit)
    lisPc,      \* lisPc[p]: "off", "bind", "listen", "accept", "recv",
                \*           "connect", "write", "exit", "dead"
    alive,      \* the process exists
    status,     \* exit status, -1 while there is none
    role,       \* "unknown", "primary" (bind succeeded), "secondary"
    late,       \* the process was launched while a primary was listening
    touched,    \* what of the shared files the process has modified
    portOwner,  \* the process bound to 127.0.0.1:6666, or "none"
    listening,  \* the owner has called listen()
    conns,      \* connections, in the order they were established
    cur,        \* cur[p]: the connection p's listener is reading (0: none)
    handled     \* handled[p]: _oneclick.process_arg calls, in order

relayVars == <<mainPc, lisPc, alive, status, role, late, touched, portOwner,
               listening, conns, cur, handled>>

\* ---------------------------------------------------------- values
NoExc == [type |-> "none", cause |-> "none", text |-> FALSE]

Raised(type) == [type |-> type, cause |-> "none", text |-> FALSE]

\* An exception that may carry an error_text attribute of its own.
RaisedWith(type, txt) == [type |-> type, cause |-> "none", text |-> txt]

\* util.MergeError(err): the "merge failed" condition carrying its cause.
MergeError(err) == [type |-> "MergeError", cause |-> err.type, text |-> FALSE]

None == [none |-> TRUE]

NoTarget == [mod |-> "", priority |-> 0, file |-> "", logs |-> {}]

Pending == [kind |-> "pending", value |-> None]

Returned(v) == [kind |-> "returned", value |-> v]

RaisedRaw(e) == [kind |-> "raised", value |-> e]

\* win_or_lose's two envelopes.
SuccessEnvelope_WithValue == [success |-> TRUE, value |-> None]

SuccessEnvelope == [success |-> TRUE]

\* lines 33-37: err.error_text is set, to its own value when it has one and
\* to the formatted traceback otherwise; `custom` remembers which.
SetErrorText(err) ==
    [type |-> err.type, cause |-> err.cause, text |-> TRUE, custom |-> err.text]

FailureEnvelope_FlagOfRaised(err) ==
    [error |-> [type |-> err.type, cause |-> err.cause, custom |-> err.text],
     error_text |-> err.text]

\* lines 40-43: "error" is the text just set, "error_text" is hasattr
\* evaluated after the setattr.
FailureEnvelope(err) ==
    LET e == SetErrorText(err)
    IN [error |-> [type |-> e.type, cause |-> e.cause, custom |-> e.custom],
        error_text |-> e.text]

Event(k, x, p, ok) == [k |-> k, x |-> x, pool |-> p, ok |-> ok]

\* A merger object: its NAME and where the instance came from.
Merger(name, from) == [NAME |-> name, of |-> from]

Max(S) == CHOOSE x \in S : \A y \in S : y <= x

\* util.get_installed_mods(): enabled mods only.
InstalledMods == {n \in installed : enabled[n]}

\* ------------------------------------------------ collaborators
\* BcmlMod.mergers / mergers.get_mergers_for_mod(mod): one instance per
\* merger that logged changes for the mod.
ModMergers(mod) == {Merger(name, mod) : name \in logged[mod]}

\* Merger.is_mod_logged(mod), read from the logs on disk.
IsModLogged(name, mod, logs) == name \in logs[mod]

\* mergers.sort_mergers: a deterministic order consistent with the edges.
RECURSIVE SortMergers(_)
SortMergers(S) ==
    IF S = {} THEN <<>>
    ELSE LET m == CHOOSE x \in S : \A y \in S : Rank(x.NAME) <= Rank(y.NAME)
         IN <<m>> \o SortMergers(S \ {m})

\* install.install_mod without insert_priority: above the current maximum.
NextPriority == IF installed = {} THEN 1 ELSE Max({priority[n] : n \in installed}) + 1

\* install.install_mod succeeds on a valid package whose mod is not there yet.
CanInstall(p) == PkgValid(p) /\ PkgName(p) \notin installed

\* The InstallStack after install.install_mod(p, insert_priority = prio).
Registered(p, prio) ==
    /\ installed' = installed \cup {PkgName(p)}
    /\ priority' = [priority EXCEPT ![PkgName(p)] = prio]
    /\ enabled' = [enabled EXCEPT ![PkgName(p)] = TRUE]
    /\ logged' = [logged EXCEPT ![PkgName(p)] = PkgLogs(p)]

\* The InstallStack after the mod's directory is removed.
Removed(S) ==
    /\ installed' = installed \ S
    /\ priority' = [n \in Names |-> IF n \in S THEN 0 ELSE priority[n]]
    /\ enabled' = [n \in Names |-> IF n \in S THEN FALSE ELSE enabled[n]]
    /\ logged' = [n \in Names |-> IF n \in S THEN {} ELSE logged[n]]

\* The InstallStack: the mod set with priorities, enabled flags and logs.
Stack == <<installed, priority, enabled, logged>>

StackUnchanged == UNCHANGED Stack

\* -------------------------------------------------- win_or_lose
\* A call enters status_run: the previous call's record is cleared.
Begin(name, out, at, npool, tgt) ==
    /\ pc = "done"
    /\ op' = name
    /\ outer' = out
    /\ pc' = at
    /\ mods' = <<>>
    /\ todo' = <<>>
    /\ pool' = npool
    /\ poolOpen' = (npool > 0)
    /\ remergers' = {}
    /\ nitems' = 0
    /\ target' = tgt
    /\ before' = Stack
    /\ innerRet' = Pending
    /\ fret' = None
    /\ logN' = 0

\* A call whose first step neither raises nor returns.
Enter(name, out, at, npool, tgt) ==
    /\ Begin(name, out, at, npool, tgt)
    /\ ev' = <<>>
    /\ exc' = NoExc
    /\ ret' = Pending

\* The handler raises e: an open `with Pool` block is left on the way out.
Raise_PoolLeft(e) ==
    /\ exc' = e
    /\ pc' = "wl_except"
    /\ UNCHANGED poolOpen

Raise(e) ==
    /\ exc' = e
    /\ pc' = "wl_except"
    /\ poolOpen' = FALSE

\* status_run, the except branch (lines 32-43).
WL_Except ==
    /\ UNCHANGED relayVars
    /\ pc = "wl_except"
    /\ logN' = logN + 1
    /\ IF outer = "mod_action" /\ op = "update_mod"
       THEN /\ innerRet' = Returned(FailureEnvelope(exc))
            /\ op' = "mod_action"
            /\ pc' = "ma_after"
            /\ exc' = NoExc
            /\ UNCHANGED ret
       ELSE /\ ret' = Returned(FailureEnvelope(exc))
            /\ pc' = "done"
            /\ UNCHANGED <<innerRet, op, exc>>
    /\ StackUnchanged
    /\ UNCHANGED <<outer, ev, mods, todo, remergers, pool, poolOpen, nitems,
                   target, before, fret>>

\* status_run, the normal return (line 44): func's value is dropped.
WL_Return ==
    /\ UNCHANGED relayVars
    /\ pc = "wl_return"
    /\ IF outer = "mod_action" /\ op = "update_mod"
       THEN /\ innerRet' = Returned(SuccessEnvelope)
            /\ op' = "mod_action"
            /\ pc' = "ma_after"
            /\ UNCHANGED ret
       ELSE /\ ret' = Returned(SuccessEnvelope)
            /\ pc' = "done"
            /\ UNCHANGED <<innerRet, op>>
    /\ StackUnchanged
    /\ UNCHANGED <<outer, ev, mods, todo, remergers, pool, poolOpen, nitems,
                   target, before, exc, fret, logN>>

\* install.refresher: after func returns, MasterExport is refreshed.
Refreshed(events) == Append(events, Event("refresh", "", 0, TRUE))

\* -------------------------------------------------- Api.install_mod
\* lines 228-229: the call starts and creates its pool.
IM_Call ==
    /\ UNCHANGED relayVars
    /\ Enter("install_mod", "none", "im_install", 1, NoTarget)
    /\ StackUnchanged

RECURSIVE MergerSet_NoDedup(_, _)
MergerSet_NoDedup(ms, acc) ==
    IF ms = <<>> THEN acc
    ELSE MergerSet_NoDedup(Tail(ms), acc \cup ModMergers(Head(ms)))

\* lines 246-253: the union of the installed mods' mergers, one per NAME.
RECURSIVE MergerSet(_, _)
MergerSet(ms, acc) ==
    IF ms = <<>> THEN acc
    ELSE MergerSet(Tail(ms),
                   acc \cup {m \in ModMergers(Head(ms)) :
                                m.NAME \notin {x.NAME : x \in acc}})

\* lines 233-241: the next element of params["mods"] is installed, or the
\* list is exhausted and the merger set is computed and sorted.
IM_Install ==
    /\ UNCHANGED relayVars
    /\ pc = "im_install"
    /\ \/ /\ nitems < MaxBatch
          /\ \E p \in Packages, txt \in BOOLEAN :
              IF CanInstall(p)
              THEN /\ NextPriority <= MaxPriority
                   /\ Registered(p, NextPriority)
                   /\ mods' = Append(mods, PkgName(p))
                   /\ ev' = Append(ev, Event("install", PkgName(p), pool, TRUE))
                   /\ nitems' = nitems + 1
                   /\ UNCHANGED <<pc, exc, poolOpen, todo>>
              ELSE /\ Raise(RaisedWith("InstallError", txt))
                   /\ ev' = Append(ev, Event("install", PkgName(p), pool, FALSE))
                   /\ nitems' = nitems + 1
                   /\ StackUnchanged
                   /\ UNCHANGED <<mods, todo>>
       \/ /\ todo' = SortMergers(MergerSet(mods, {}))
          /\ pc' = "im_merge"
          /\ StackUnchanged
          /\ UNCHANGED <<mods, ev, nitems, exc, poolOpen>>
    /\ UNCHANGED <<op, outer, remergers, pool, target, before, ret, innerRet, fret,
                   logN>>

\* lines 256-261: one merger is given the pool and executed; a failure is
\* re-raised as MergeError.  After the last one the pool is left and
\* install.refresher refreshes MasterExport.
IM_Merge ==
    /\ UNCHANGED relayVars
    /\ pc = "im_merge"
    /\ IF todo = <<>>
       THEN /\ pc' = "wl_return"
            /\ poolOpen' = FALSE
            /\ ev' = Refreshed(ev)
            /\ UNCHANGED <<todo, exc>>
       ELSE \E ok \in BOOLEAN :
            /\ ev' = Append(ev, Event("merge", Head(todo).NAME, pool, ok))
            /\ todo' = Tail(todo)
            /\ IF ok THEN UNCHANGED <<pc, exc, poolOpen>>
                     ELSE Raise(MergeError(Raised("PerformError")))
    /\ StackUnchanged
    /\ UNCHANGED <<op, outer, mods, remergers, pool, nitems, target, before, ret,
                   innerRet, fret, logN>>

\* --------------------------------------------------- Api.update_mod
\* Entered directly, or from mod_action (line 345) with outer = "mod_action".
UM_Enter(out) ==
    \E mod \in installed :
        /\ UNCHANGED relayVars
        /\ Enter("update_mod", out, "um_start", 0,
                 [mod |-> mod, priority |-> priority[mod], file |-> "",
                  logs |-> logged[mod]])
        /\ StackUnchanged

UM_Call == UM_Enter("none")

\* lines 266-279: nothing picked: return.  Otherwise the old state's
\* mergers are read, the mod's directory is removed and the pool is created.
UM_Start ==
    /\ UNCHANGED relayVars
    /\ pc = "um_start"
    /\ \/ /\ pc' = "wl_return"
          /\ ev' = Refreshed(ev)
          /\ StackUnchanged
          /\ UNCHANGED <<remergers, pool, poolOpen, target>>
       \/ \E p \in Packages :
          /\ target' = [target EXCEPT !.file = p]
          /\ remergers' = {Merger(name, "old") : name \in logged[target.mod]}
          /\ Removed({target.mod})
          /\ ev' = Append(ev, Event("rmtree", target.mod, 0, TRUE))
          /\ pool' = 1
          /\ poolOpen' = TRUE
          /\ pc' = "um_install"
    /\ UNCHANGED <<op, outer, mods, todo, nitems, before, exc, ret, innerRet,
                   fret, logN>>

Remergers_NoDedup(old, new) == old \cup new

\* lines 286-290: the new mod's mergers join the set, one per NAME.
Remergers(old, new) ==
    old \cup {m \in new : m.NAME \notin {x.NAME : x \in old}}

\* lines 280-290: the new package is installed at the old priority.
UM_Install ==
    /\ UNCHANGED relayVars
    /\ pc = "um_install"
    /\ IF CanInstall(target.file)
       THEN /\ Registered(target.file, target.priority)
            /\ ev' = Append(ev, Event("install", PkgName(target.file), pool, TRUE))
            /\ remergers' = Remergers(remergers,
                    {Merger(name, "new") : name \in PkgLogs(target.file)})
            /\ pc' = "um_merge"
            /\ UNCHANGED <<exc, poolOpen>>
       ELSE /\ Raise(Raised("InstallError"))
            /\ ev' = Append(ev, Event("install", PkgName(target.file), pool, FALSE))
            /\ StackUnchanged
            /\ UNCHANGED remergers
    /\ UNCHANGED <<op, outer, mods, todo, pool, nitems, target, before, ret, innerRet,
                   fret, logN>>

\* lines 291-293: the set is iterated in no particular order; a failure of
\* perform_merge propagates as it is.
UM_Merge ==
    /\ UNCHANGED relayVars
    /\ pc = "um_merge"
    /\ IF remergers = {}
       THEN /\ pc' = "wl_return"
            /\ poolOpen' = FALSE
            /\ ev' = Refreshed(ev)
            /\ UNCHANGED <<remergers, exc>>
       ELSE \E m \in remergers, ok \in BOOLEAN :
            /\ ev' = Append(ev, Event("merge", m.NAME, pool, ok))
            /\ remergers' = remergers \ {m}
            /\ IF ok THEN UNCHANGED <<pc, exc, poolOpen>>
                     ELSE Raise(Raised("PerformError"))
    /\ StackUnchanged
    /\ UNCHANGED <<op, outer, mods, todo, pool, nitems, target, before, ret, innerRet,
                   fret, logN>>

\* -------------------------------------------------- Api.apply_queue
AQ_Call ==
    /\ UNCHANGED relayVars
    /\ Enter("apply_queue", "none", "aq_move", 0, NoTarget)
    /\ StackUnchanged

\* BcmlMod.change_priority(p)
ChangePriority(mod, p) == [priority EXCEPT ![mod] = p]

\* lines 305-309: the next move is applied (renaming the mod's directory
\* may fail), or the moves are exhausted and the pool is created.
AQ_Move ==
    /\ UNCHANGED relayVars
    /\ pc = "aq_move"
    /\ \/ /\ nitems < MaxBatch
          /\ \E mod \in installed, p \in 1..MaxPriority, ok \in BOOLEAN :
              /\ mods' = Append(mods, mod)
              /\ ev' = Append(ev, Event("move", mod, 0, ok))
              /\ IF ok
                 THEN /\ priority' = ChangePriority(mod, p)
                      /\ UNCHANGED <<pc, exc, poolOpen>>
                 ELSE /\ Raise(Raised("OSError"))
                      /\ UNCHANGED priority
          /\ nitems' = nitems + 1
          /\ UNCHANGED pool
       \/ /\ pc' = "aq_install"
          /\ pool' = 1
          /\ poolOpen' = TRUE
          /\ nitems' = 0
          /\ UNCHANGED <<priority, mods, ev, exc>>
    /\ UNCHANGED <<installed, enabled, logged, op, outer, todo, remergers,
                   target, before, ret, innerRet, fret, logN>>

QueueRemergers_All(ms, logs) == {Merger(name, "fresh") : name \in Mergers}

\* lines 321-328: fresh instances of the mergers that have logged changes
\* for some mod of the list, one per NAME.
QueueRemergers(ms, logs) ==
    {Merger(name, "fresh") : name \in
        {n \in Mergers : \E i \in 1..Len(ms) : IsModLogged(n, ms[i], logs)}}

\* lines 310-319 and 332: the next install is made and the mergers to run
\* after it are computed; or the installs are exhausted, the pool is left
\* and MasterExport is refreshed (by line 332, then by install.refresher).
AQ_Install ==
    /\ UNCHANGED relayVars
    /\ pc = "aq_install"
    /\ \/ /\ nitems < MaxBatch
          /\ nitems' = nitems + 1
          /\ \E p \in Packages, prio \in 1..MaxPriority :
              IF CanInstall(p)
              THEN /\ Registered(p, prio)
                   /\ mods' = Append(mods, PkgName(p))
                   /\ ev' = Append(ev, Event("install", PkgName(p), pool, TRUE))
                   /\ todo' = SortMergers(QueueRemergers(mods', logged'))
                   /\ pc' = "aq_merge"
                   /\ UNCHANGED <<exc, poolOpen>>
              ELSE /\ Raise(Raised("InstallError"))
                   /\ ev' = Append(ev, Event("install", PkgName(p), pool, FALSE))
                   /\ StackUnchanged
                   /\ UNCHANGED <<mods, todo>>
       \/ /\ pc' = "wl_return"
          /\ poolOpen' = FALSE
          /\ ev' = Refreshed(Refreshed(ev))
          /\ StackUnchanged
          /\ UNCHANGED <<mods, todo, nitems, exc>>
    /\ UNCHANGED <<op, outer, remergers, pool, target, before, ret, innerRet, fret,
                   logN>>

\* lines 329-331: inside the installs loop, the mergers are executed; a
\* failure of perform_merge propagates as it is.
AQ_Merge ==
    /\ UNCHANGED relayVars
    /\ pc = "aq_merge"
    /\ IF todo = <<>>
       THEN /\ pc' = "aq_install"
            /\ UNCHANGED <<ev, todo, exc, poolOpen>>
       ELSE \E ok \in BOOLEAN :
            /\ ev' = Append(ev, Event("merge", Head(todo).NAME, pool, ok))
            /\ todo' = Tail(todo)
            /\ IF ok THEN UNCHANGED <<pc, exc, poolOpen>>
                     ELSE Raise(Raised("PerformError"))
    /\ StackUnchanged
    /\ UNCHANGED <<op, outer, mods, remergers, pool, nitems, target, before, ret,
                   innerRet, fret, logN>>

\* ------------------------------------------------------ Api.remerge
\* What a caller may pass as params["name"]: "all", a merger's friendly
\* name, or a name no merger has.
RemergeNames == {"all", "nobody"} \cup Mergers

\* lines 402-416, up to the first perform_merge.  With no installed mod a
\* MasterExport that exists is removed and relinked (either may fail); one
\* that does not exist is left alone.
\* "all": install.refresh_merges() runs every merger.  Otherwise the
\* merger is looked up by name ([...][0] raises IndexError when there is
\* none).  Whatever is raised inside the try is re-raised as MergeError.
RM_Call ==
    \E name \in RemergeNames :
    /\ UNCHANGED relayVars
    /\ Enter("remerge", "none", "rm_start", 0,
             [mod |-> name, priority |-> 0, file |-> "", logs |-> {}])
    /\ StackUnchanged

Selected_Any(name) == Mergers

\* lines 411-415: the registered mergers whose friendly name is the target.
Selected(name) == {m \in Mergers : m = name}

RM_Start ==
    /\ UNCHANGED relayVars
    /\ pc = "rm_start"
    /\ IF InstalledMods = {}
       THEN \E exists \in BOOLEAN, ok \in BOOLEAN :
            /\ todo' = <<>>
            /\ IF ~exists
               THEN /\ pc' = "wl_return"
                    /\ ev' = Append(ev, Event("exists", "", 0, FALSE))
                    /\ UNCHANGED <<exc, poolOpen>>
               ELSE IF ok
               THEN /\ pc' = "wl_return"
                    /\ ev' = ev \o <<Event("exists", "", 0, TRUE),
                                     Event("teardown", "", 0, TRUE),
                                     Event("relink", "", 0, TRUE)>>
                    /\ UNCHANGED <<exc, poolOpen>>
               ELSE /\ Raise(MergeError(Raised("OSError")))
                    /\ ev' = ev \o <<Event("exists", "", 0, TRUE),
                                     Event("teardown", "", 0, FALSE)>>
       ELSE IF target.mod = "all"
       THEN /\ todo' = SortMergers({Merger(name, "fresh") : name \in Mergers})
            /\ pc' = "rm_merge"
            /\ UNCHANGED <<ev, exc, poolOpen>>
       ELSE IF Selected(target.mod) # {}
       THEN /\ todo' = <<Merger(CHOOSE m \in Selected(target.mod) : TRUE,
                                "fresh")>>
            /\ pc' = "rm_merge"
            /\ UNCHANGED <<ev, exc, poolOpen>>
       ELSE /\ Raise(MergeError(Raised("IndexError")))
            /\ UNCHANGED <<ev, todo>>
    /\ StackUnchanged
    /\ UNCHANGED <<op, outer, mods, remergers, pool, nitems, target, before, ret,
                   innerRet, fret, logN>>

\* lines 409 and 411-418: the mergers are executed (no pool is handed to
\* them), then MasterExport is refreshed.
RM_Merge ==
    /\ UNCHANGED relayVars
    /\ pc = "rm_merge"
    /\ IF todo = <<>>
       THEN /\ pc' = "wl_return"
            /\ ev' = Refreshed(ev)
            /\ UNCHANGED <<todo, exc, poolOpen>>
       ELSE \E ok \in BOOLEAN :
            /\ ev' = Append(ev, Event("merge", Head(todo).NAME, 0, ok))
            /\ todo' = Tail(todo)
            /\ IF ok THEN UNCHANGED <<pc, exc, poolOpen>>
                     ELSE Raise(MergeError(Raised("PerformError")))
    /\ StackUnchanged
    /\ UNCHANGED <<op, outer, mods, remergers, pool, nitems, target, before, ret,
                   innerRet, fret, logN>>

\* --------------------------------------------------- Api.mod_action
\* line 345: action "update" calls the wrapped update_mod.
MA_Update == UM_Enter("mod_action")

\* update_mod's envelope is dropped and mod_action's body ends.
MA_After ==
    /\ UNCHANGED relayVars
    /\ pc = "ma_after"
    /\ pc' = "wl_return"
    /\ StackUnchanged
    /\ UNCHANGED <<op, outer, ev, mods, todo, remergers, pool, poolOpen,
                   nitems, target, before, exc, ret, innerRet, fret, logN>>

\* lines 338-343: enable, disable and uninstall are one call each into
\* install; the call may fail before it changes anything.
MA_Simple ==
    \E mod \in installed, action \in {"enable", "disable", "uninstall"},
       ok \in BOOLEAN :
    /\ UNCHANGED relayVars
    /\ Begin("mod_action", "none", IF ok THEN "wl_return" ELSE "wl_except", 0,
             [mod |-> mod, priority |-> priority[mod], file |-> action,
              logs |-> logged[mod]])
    /\ ev' = <<Event(action, mod, 0, ok)>>
    /\ ret' = Pending
    /\ exc' = IF ok THEN NoExc ELSE Raised("OSError")
    /\ IF ~ok
       THEN StackUnchanged
       ELSE CASE action = "enable" ->
                   /\ enabled' = [enabled EXCEPT ![mod] = TRUE]
                   /\ UNCHANGED <<installed, priority, logged>>
              [] action = "disable" ->
                   /\ enabled' = [enabled EXCEPT ![mod] = FALSE]
                   /\ UNCHANGED <<installed, priority, logged>>
              [] OTHER -> Removed({mod})

\* ------------------------------- the other mutating entry points
\* uninstall_all (lines 295-299): the folders are removed one by one; a
\* failing rmtree leaves the rest in place.
UninstallAll ==
    \E S \in SUBSET installed :
    /\ UNCHANGED relayVars
    /\ Begin("uninstall_all", "none",
             IF S = installed THEN "wl_return" ELSE "wl_except", 0, NoTarget)
    /\ Removed(S)
    /\ ret' = Pending
    /\ ev' = IF S = installed THEN Refreshed(<<>>) ELSE <<>>
    /\ exc' = IF S = installed THEN NoExc ELSE Raised("OSError")

\* delete_backup (lines 428-430): Path.unlink may raise.
DeleteBackup ==
    \E ok \in BOOLEAN :
    /\ UNCHANGED relayVars
    /\ Begin("delete_backup", "none", IF ok THEN "wl_return" ELSE "wl_except",
             0, NoTarget)
    /\ ev' = <<Event("unlink", "", 0, ok)>>
    /\ ret' = Pending
    /\ exc' = IF ok THEN NoExc ELSE Raised("FileNotFoundError")
    /\ StackUnchanged

\* save_settings (lines 101-104) and restart (lines 551-558) are not
\* decorated: what they raise reaches the caller as it is.
Undecorated(name, err) ==
    \E ok \in BOOLEAN :
    /\ UNCHANGED relayVars
    /\ Begin(name, "none", "done", 0, NoTarget)
    /\ ev' = <<Event(name, "", 0, ok)>>
    /\ ret' = IF ok THEN Returned(None) ELSE RaisedRaw(Raised(err))
    /\ exc' = IF ok THEN NoExc ELSE Raised(err)
    /\ StackUnchanged

SaveSettings == Undecorated("save_settings", "OSError")

Restart == Undecorated("restart", "OSError")

\* =================================================================
\* The argument relay: main() and oneclick_listener() of every launched
\* process.  Each process has a main thread and a listener thread.
\* =================================================================
Procs == {"A", "B", "C"}

\* conn.recv(1024)
RecvMax == 1024

\* The argument text (characters) each process is started with; U+00E9
\* is the one character UTF-8 encodes in two bytes.
ArgOf(p) ==
    CASE p = "A" -> <<"a">>
      [] p = "B" -> <<"a", "b">>
      [] OTHER -> <<"e9">>

\* Processes are named in the order they are launched.
LaunchedBefore(p) ==
    CASE p = "A" -> {}
      [] p = "B" -> {"A"}
      [] OTHER -> {"A", "B"}

Sentinel == <<".">>

RECURSIVE Encode(_)
Encode(t) ==
    IF t = <<>> THEN <<>>
    ELSE (IF Head(t) = "e9" THEN <<"c3", "a9">> ELSE <<Head(t)>>)
         \o Encode(Tail(t))

\* bytes.decode("utf8") succeeds on whole characters only.
RECURSIVE ValidUtf8(_)
ValidUtf8(b) ==
    IF b = <<>> THEN TRUE
    ELSE IF Head(b) = "c3"
         THEN Len(b) >= 2 /\ b[2] = "a9" /\ ValidUtf8(SubSeq(b, 3, Len(b)))
         ELSE Head(b) # "a9" /\ ValidUtf8(Tail(b))

RECURSIVE Decode(_)
Decode(b) ==
    IF b = <<>> THEN <<>>
    ELSE IF Head(b) = "c3" THEN <<"e9">> \o Decode(SubSeq(b, 3, Len(b)))
         ELSE <<Head(b)>> \o Decode(Tail(b))

Min(x, y) == IF x <= y THEN x ELSE y

RelayInit ==
    /\ mainPc = [p \in Procs |-> "off"]
    /\ lisPc = [p \in Procs |-> "off"]
    /\ alive = [p \in Procs |-> FALSE]
    /\ status = [p \in Procs |-> -1]
    /\ role = [p \in Procs |-> "unknown"]
    /\ late = [p \in Procs |-> FALSE]
    /\ touched = [p \in Procs |-> {}]
    /\ portOwner = "none"
    /\ listening = FALSE
    /\ conns = <<>>
    /\ cur = [p \in Procs |-> 0]
    /\ handled = [p \in Procs |-> <<>>]

\* The sockets of a process that ends are closed by the system: the port
\* is released and the write side of its connections is shut.
PortAfterClose(p) == IF portOwner = p THEN "none" ELSE portOwner

ListeningAfterClose(p) == IF portOwner = p THEN FALSE ELSE listening

ConnsAfterClose(p) ==
    [i \in 1..Len(conns) |->
        IF conns[i].from = p THEN [conns[i] EXCEPT !.wclosed = TRUE]
        ELSE conns[i]]

\* main(), lines 599-607: the process is launched; the log is truncated
\* and the work directory emptied, unless the file system refuses.
M_Launch(p) ==
    /\ UNCHANGED orchVars
    /\ mainPc[p] = "off"
    /\ \A q \in LaunchedBefore(p) : mainPc[q] # "off"
    /\ \E done \in {{}, {"log", "work"}} :
        touched' = [touched EXCEPT ![p] = done]
    /\ mainPc' = [mainPc EXCEPT ![p] = "cleaned"]
    /\ alive' = [alive EXCEPT ![p] = TRUE]
    /\ late' = [late EXCEPT ![p] = listening]
    /\ UNCHANGED <<lisPc, status, role, portOwner, listening, conns, cur,
                   handled>>

\* lines 609-611: the listener thread is started.
M_Spawn(p) ==
    /\ UNCHANGED orchVars
    /\ alive[p] /\ mainPc[p] = "cleaned"
    /\ mainPc' = [mainPc EXCEPT ![p] = "spawned"]
    /\ lisPc' = [lisPc EXCEPT ![p] = "bind"]
    /\ UNCHANGED <<alive, status, role, late, touched, portOwner, listening,
                   conns, cur, handled>>

\* lines 613-649: the Api and the window are created, webview.start runs.
M_Gui(p) ==
    /\ UNCHANGED orchVars
    /\ alive[p] /\ mainPc[p] = "spawned"
    /\ mainPc' = [mainPc EXCEPT ![p] = "gui"]
    /\ UNCHANGED <<lisPc, alive, status, role, late, touched, portOwner,
                   listening, conns, cur, handled>>

\* lines 647-650: the window is closed, webview.start returns, stop_it
\* runs and the main thread ends.
M_End(p) ==
    /\ UNCHANGED orchVars
    /\ alive[p] /\ mainPc[p] = "gui"
    /\ mainPc' = [mainPc EXCEPT ![p] = "ended"]
    /\ UNCHANGED <<lisPc, alive, status, role, late, touched, portOwner,
                   listening, conns, cur, handled>>

\* The interpreter exits once the main thread and the (non-daemon)
\* listener thread have both ended.
P_Exit(p) ==
    /\ UNCHANGED orchVars
    /\ alive[p] /\ mainPc[p] = "ended" /\ lisPc[p] = "dead"
    /\ alive' = [alive EXCEPT ![p] = FALSE]
    /\ status' = [status EXCEPT ![p] = 0]
    /\ portOwner' = PortAfterClose(p)
    /\ listening' = ListeningAfterClose(p)
    /\ conns' = ConnsAfterClose(p)
    /\ UNCHANGED <<mainPc, lisPc, role, late, touched, cur, handled>>

\* lines 578-583: bind succeeds when the port is free.
L_Bind(p) ==
    /\ UNCHANGED orchVars
    /\ alive[p] /\ lisPc[p] = "bind"
    /\ IF portOwner = "none"
       THEN /\ portOwner' = p
            /\ role' = [role EXCEPT ![p] = "primary"]
            /\ lisPc' = [lisPc EXCEPT ![p] = "listen"]
       ELSE /\ role' = [role EXCEPT ![p] = "secondary"]
            /\ lisPc' = [lisPc EXCEPT ![p] = "connect"]
            /\ UNCHANGED portOwner
    /\ UNCHANGED <<mainPc, alive, status, late, touched, listening, conns,
                   cur, handled>>

\* line 584
L_Listen(p) ==
    /\ UNCHANGED orchVars
    /\ alive[p] /\ lisPc[p] = "listen"
    /\ listening' = TRUE
    /\ lisPc' = [lisPc EXCEPT ![p] = "accept"]
    /\ UNCHANGED <<mainPc, alive, status, role, late, touched, portOwner,
                   conns, cur, handled>>

\* _oneclick.send_arg, the connect: refused unless the owner listens; the
\* error leaves the except block of line 581 and ends the thread.
L_Connect(p) ==
    /\ UNCHANGED orchVars
    /\ alive[p] /\ lisPc[p] = "connect"
    /\ IF listening
       THEN /\ conns' = Append(conns, [from |-> p, to |-> portOwner,
                                       net |-> <<>>, buf |-> <<>>,
                                       wclosed |-> FALSE, rst |-> FALSE,
                                       state |-> "queued"])
            /\ lisPc' = [lisPc EXCEPT ![p] = "write"]
       ELSE /\ lisPc' = [lisPc EXCEPT ![p] = "dead"]
            /\ UNCHANGED conns
    /\ UNCHANGED <<mainPc, alive, status, role, late, touched, portOwner,
                   listening, cur, handled>>

MyConn(p) == CHOOSE i \in 1..Len(conns) : conns[i].from = p

\* _oneclick.send_arg, the write: the argument text and the terminator.
L_Write(p) ==
    /\ UNCHANGED orchVars
    /\ alive[p] /\ lisPc[p] = "write"
    /\ conns' = [conns EXCEPT ![MyConn(p)].net = Encode(ArgOf(p)) \o Sentinel]
    /\ lisPc' = [lisPc EXCEPT ![p] = "exit"]
    /\ UNCHANGED <<mainPc, alive, status, role, late, touched, portOwner,
                   listening, cur, handled>>

\* line 583: os._exit(0) ends the whole process; the main thread stops
\* wherever it is.
L_Exit(p) ==
    /\ UNCHANGED orchVars
    /\ alive[p] /\ lisPc[p] = "exit"
    /\ alive' = [alive EXCEPT ![p] = FALSE]
    /\ status' = [status EXCEPT ![p] = 0]
    /\ conns' = ConnsAfterClose(p)
    /\ mainPc' = [mainPc EXCEPT ![p] = "killed"]
    /\ UNCHANGED <<lisPc, role, late, touched, portOwner, listening, cur,
                   handled>>

\* The network delivers the next bytes of a connection, in any grouping.
Deliver ==
    \E i \in 1..Len(conns) : \E k \in 1..Len(conns[i].net) :
    /\ UNCHANGED orchVars
    /\ conns' = [conns EXCEPT
                    ![i].buf = conns[i].buf \o SubSeq(conns[i].net, 1, k),
                    ![i].net = SubSeq(conns[i].net, k + 1, Len(conns[i].net))]
    /\ UNCHANGED <<mainPc, lisPc, alive, status, role, late, touched,
                   portOwner, listening, cur, handled>>

\* The connection of a process that has ended is reset instead of being
\* closed in order: the bytes not yet read are lost and the next recv on
\* it raises ConnectionResetError.
Reset ==
    \E i \in 1..Len(conns) :
    /\ UNCHANGED orchVars
    /\ ~alive[conns[i].from] /\ conns[i].state # "closed" /\ ~conns[i].rst
    /\ conns' = [conns EXCEPT ![i].rst = TRUE, ![i].net = <<>>,
                               ![i].buf = <<>>]
    /\ UNCHANGED <<mainPc, lisPc, alive, status, role, late, touched,
                   portOwner, listening, cur, handled>>

Queued(p) == {i \in 1..Len(conns) : conns[i].to = p /\ conns[i].state = "queued"}

NextQueued_Any(p) == Queued(p)

\* sock.accept() returns the oldest connection not yet accepted.
NextQueued(p) == {i \in Queued(p) : \A j \in Queued(p) : i <= j}

\* line 586
L_Accept(p) ==
    /\ UNCHANGED orchVars
    /\ alive[p] /\ lisPc[p] = "accept"
    /\ \E i \in NextQueued(p) :
        /\ conns' = [conns EXCEPT ![i].state = "open"]
        /\ cur' = [cur EXCEPT ![p] = i]
    /\ lisPc' = [lisPc EXCEPT ![p] = "recv"]
    /\ UNCHANGED <<mainPc, alive, status, role, late, touched, portOwner,
                   listening, handled>>

\* What recv returns: the bytes that have arrived, at most RecvMax of
\* them; b"" once the peer has closed and nothing is left.
RecvReady(c) == c.rst \/ c.buf # <<>> \/ (c.net = <<>> /\ c.wclosed)

RecvData(c) == SubSeq(c.buf, 1, Min(Len(c.buf), RecvMax))

RecvRest(c) == SubSeq(c.buf, Min(Len(c.buf), RecvMax) + 1, Len(c.buf))

\* line 593: the inner loop ends on b"" and on a chunk that is b".".
EndOfMessage(data) == data = <<>> \/ data = Sentinel

OnReset_Fatal(p) ==
    /\ conns' = [conns EXCEPT ![cur[p]].state = "closed"]
    /\ cur' = [cur EXCEPT ![p] = 0]
    /\ lisPc' = [lisPc EXCEPT ![p] = "dead"]
    /\ portOwner' = "none"
    /\ listening' = FALSE
    /\ UNCHANGED handled

\* lines 591-592: ConnectionResetError leaves the inner loop; the with
\* block closes the connection and the outer loop accepts again.
OnReset(p) ==
    /\ conns' = [conns EXCEPT ![cur[p]].state = "closed"]
    /\ cur' = [cur EXCEPT ![p] = 0]
    /\ lisPc' = [lisPc EXCEPT ![p] = "accept"]
    /\ UNCHANGED <<handled, portOwner, listening>>

\* lines 588-595: one pass of the inner loop.  A chunk that does not
\* decode raises UnicodeDecodeError: the thread ends, and the two with
\* blocks close the connection and the listening socket on the way out.
L_Recv(p) ==
    /\ UNCHANGED orchVars
    /\ alive[p] /\ lisPc[p] = "recv"
    /\ LET i == cur[p]
           c == conns[i]
           data == RecvData(c)
       IN /\ RecvReady(c)
          /\ IF c.rst
             THEN OnReset(p)
             ELSE IF EndOfMessage(data)
             THEN /\ conns' = [conns EXCEPT ![i].buf = RecvRest(c),
                                            ![i].state = "closed"]
                  /\ cur' = [cur EXCEPT ![p] = 0]
                  /\ lisPc' = [lisPc EXCEPT ![p] = "accept"]
                  /\ UNCHANGED <<handled, portOwner, listening>>
             ELSE IF ValidUtf8(data)
             THEN /\ conns' = [conns EXCEPT ![i].buf = RecvRest(c)]
                  /\ handled' = [handled EXCEPT ![p] =
                        Append(@, [conn |-> i, msg |-> Decode(data)])]
                  /\ UNCHANGED <<cur, lisPc, portOwner, listening>>
             ELSE /\ conns' = [conns EXCEPT ![i].buf = RecvRest(c),
                                            ![i].state = "closed"]
                  /\ cur' = [cur EXCEPT ![p] = 0]
                  /\ lisPc' = [lisPc EXCEPT ![p] = "dead"]
                  /\ portOwner' = "none"
                  /\ listening' = FALSE
                  /\ UNCHANGED handled
    /\ UNCHANGED <<mainPc, alive, status, role, late, touched>>

RelayNext ==
    \/ \E p \in Procs : M_Launch(p)
    \/ \E p \in Procs : M_Spawn(p)
    \/ \E p \in Procs : M_Gui(p)
    \/ \E p \in Procs : M_End(p)
    \/ \E p \in Procs : P_Exit(p)
    \/ \E p \in Procs : L_Bind(p)
    \/ \E p \in Procs : L_Listen(p)
    \/ \E p \in Procs : L_Connect(p)
    \/ \E p \in Procs : L_Write(p)
    \/ \E p \in Procs : L_Exit(p)
    \/ \E p \in Procs : L_Accept(p)
    \/ \E p \in Procs : L_Recv(p)
    \/ Deliver
    \/ Reset

\* ------------------------------------------------------ the system
OrchInit ==
    /\ installed = {}
    /\ priority = [n \in Names |-> 0]
    /\ enabled = [n \in Names |-> FALSE]
    /\ logged = [n \in Names |-> {}]
    /\ op = "none"
    /\ outer = "none"
    /\ pc = "done"
    /\ ev = <<>>
    /\ mods = <<>>
    /\ todo = <<>>
    /\ remergers = {}
    /\ pool = 0
    /\ poolOpen = FALSE
    /\ nitems = 0
    /\ target = NoTarget
    /\ before = <<{}, [n \in Names |-> 0], [n \in Names |-> FALSE],
                  [n \in Names |-> {}]>>
    /\ exc = NoExc
    /\ ret = Pending
    /\ innerRet = Pending
    /\ fret = None
    /\ logN = 0

vars == <<orchVars, relayVars>>

Init == OrchInit /\ RelayInit

\* The Api of one running instance.
Next ==
    \/ IM_Call
    \/ IM_Install
    \/ IM_Merge
    \/ UM_Call
    \/ UM_Start
    \/ UM_Install
    \/ UM_Merge
    \/ AQ_Call
    \/ AQ_Move
    \/ AQ_Install
    \/ AQ_Merge
    \/ RM_Call
    \/ RM_Start
    \/ RM_Merge
    \/ MA_Update
    \/ MA_After
    \/ MA_Simple
    \/ UninstallAll
    \/ DeleteBackup
    \/ SaveSettings
    \/ Restart
    \/ WL_Except
    \/ WL_Return

Spec == Init /\ [][Next]_vars

\* The processes launched on one machine and their relay.
SpecRelay == Init /\ [][RelayNext]_vars

\* The steps the running threads and the network take on their own: a
\* thread that can run does run, bytes sent do arrive, and the interpreter
\* exits once its last non-daemon thread has ended.  Launching a process,
\* closing the window and resetting a connection are up to the environment.
ThreadStep ==
    \/ \E p \in Procs : M_Spawn(p)
    \/ \E p \in Procs : M_Gui(p)
    \/ \E p \in Procs : P_Exit(p)
    \/ \E p \in Procs : L_Bind(p)
    \/ \E p \in Procs : L_Listen(p)
    \/ \E p \in Procs : L_Connect(p)
    \/ \E p \in Procs : L_Write(p)
    \/ \E p \in Procs : L_Exit(p)
    \/ \E p \in Procs : L_Accept(p)
    \/ \E p \in Procs : L_Recv(p)
    \/ Deliver

SpecRelayFair == SpecRelay /\ WF_vars(ThreadStep)

\* =================================================================
\* Properties
\* =================================================================
\* perform_merge calls of the merger `name` made by the current call.
MergeCount(name) ==
    Cardinality({i \in 1..Len(ev) : ev[i].k = "merge" /\ ev[i].x = name})

\* The mods the current call has installed, and those it has moved.
InstalledNow == {ev[i].x : i \in {j \in 1..Len(ev) : ev[j].k = "install" /\ ev[j].ok}}

MovedNow == {ev[i].x : i \in {j \in 1..Len(ev) : ev[j].k = "move" /\ ev[j].ok}}

\* The call has returned to its caller without raising.
ReturnedNormally == pc = "done" /\ exc = NoExc /\ ret.kind = "returned"

\* The last thing the call did was a perform_merge that raised.
MergeFailed == ev # <<>> /\ ev[Len(ev)].k = "merge" /\ ~ev[Len(ev)].ok

IsFailureEnvelope(r) == r.kind = "returned" /\ "error" \in DOMAIN r.value

\* C1: during one apply_queue call every merger's perform_merge is
\* executed at most once, whatever the moves and installs.
C1_ApplyQueueMergesAtMostOnce ==
    op = "apply_queue" => \A m \in Mergers : MergeCount(m) <= 1

\* C2: in an install_mod batch no merger is executed before the last
\* install of the batch, no merger is executed twice, every executed merger
\* was handed the one pool of the call, and when the call returns normally
\* exactly the mergers declared by the installed mods have been executed.
C2_InstallModMergesOnceAfterBatch ==
    op = "install_mod" =>
        /\ \A i, j \in 1..Len(ev) :
              ev[i].k = "merge" /\ ev[j].k = "install" => j < i
        /\ \A m \in Mergers : MergeCount(m) <= 1
        /\ pool = 1
        /\ \A i \in 1..Len(ev) : ev[i].k = "merge" => ev[i].pool = pool
        /\ ReturnedNormally =>
              \A m \in Mergers :
                 MergeCount(m) =
                    IF \E x \in InstalledNow : m \in logged[x] THEN 1 ELSE 0

C2_Witness ==
    /\ op = "install_mod" /\ ReturnedNormally
    /\ InstalledNow = {"a", "b"}
    /\ MergeCount("m1") = 1 /\ MergeCount("m2") = 1

\* A merger is affected by the current call: some mod the call installed
\* or moved has logged changes for it, or the mod an update replaces had.
AffectedNow(m) ==
    \/ \E x \in InstalledNow \cup MovedNow : m \in logged[x]
    \/ op = "update_mod" /\ m \in target.logs

\* C3: in install_mod, update_mod and apply_queue a merger that no mod
\* touched by the call affects never has perform_merge invoked.
C3_UnaffectedMergerNeverRuns ==
    op \in {"install_mod", "update_mod", "apply_queue"} =>
        \A i \in 1..Len(ev) : ev[i].k = "merge" => AffectedNow(ev[i].x)

C3_Witness ==
    /\ op = "apply_queue" /\ ReturnedNormally
    /\ InstalledNow = {"a"}
    /\ MergeCount("m1") = 1 /\ MergeCount("m2") = 0

\* C4: in install_mod, update_mod, apply_queue and remerge a failure of
\* perform_merge reaches the caller as a failure envelope of a MergeError
\* that carries the original failure as its cause.
C4_MergeFailureIsMergeError ==
    (pc = "done" /\ MergeFailed
       /\ op \in {"install_mod", "update_mod", "apply_queue", "remerge"}) =>
        /\ IsFailureEnvelope(ret)
        /\ ret.value.error.type = "MergeError"
        /\ ret.value.error.cause = "PerformError"

\* C5: no entry point that mutates state lets a raw exception reach the
\* caller: a failure always comes back as a failure envelope.
C5_NoRawException == pc = "done" => ret.kind # "raised"

\* The entry points decorated with win_or_lose.
Wrapped == {"install_mod", "update_mod", "apply_queue", "remerge",
            "mod_action", "uninstall_all", "delete_backup"}

\* C6 (as stated): a wrapped call that completes without raising returns
\* the success indicator together with the value the operation returned.
C6_SuccessCarriesValue ==
    (ReturnedNormally /\ op \in Wrapped) =>
        /\ "success" \in DOMAIN ret.value
        /\ "value" \in DOMAIN ret.value
        /\ ret.value.value = fret

\* C6 (amended): a wrapped call that completes without raising returns
\* the envelope holding the success indicator and nothing else.
C6_SuccessEnvelopeOnly ==
    (ReturnedNormally /\ op \in Wrapped) => ret.value = [success |-> TRUE]

C6_Witness ==
    /\ ReturnedNormally /\ op = "install_mod"
    /\ MergeCount("m1") = 1
    /\ ret.value = [success |-> TRUE]

\* C7: a mod_action "update" whose update_mod failed is reported to the
\* caller of mod_action as a failure envelope, never as a success.
C7_FailedUpdateIsReported ==
    (pc = "done" /\ op = "mod_action" /\ IsFailureEnvelope(innerRet)) =>
        IsFailureEnvelope(ret)

\* The messages the handler of process p received from connection i.
RECURSIVE MsgsOf(_, _)
MsgsOf(h, i) ==
    IF h = <<>> THEN <<>>
    ELSE (IF Head(h).conn = i THEN <<Head(h).msg>> ELSE <<>>)
         \o MsgsOf(Tail(h), i)

\* C8: once a process launched while a primary listens has relayed its
\* argument, has ended, and the primary has finished with the connection,
\* the process has exited with status 0 and the primary's handler has
\* received from that connection exactly one message, equal to the
\* argument text, however the bytes were grouped into recv chunks.
C8_DualLaunchOneMessage ==
    \A i \in 1..Len(conns) :
        (conns[i].state = "closed" /\ ~alive[conns[i].from]
            /\ late[conns[i].from]) =>
            /\ status[conns[i].from] = 0
            /\ MsgsOf(handled[conns[i].to], i) = <<ArgOf(conns[i].from)>>

\* C9: a process launched while a primary listens, and whose bind has
\* failed, has modified nothing it shares with the primary (log file, work
\* directory) and its main thread has not created the Api and the window.
C9_SecondaryDoesNothing ==
    \A p \in Procs :
        (role[p] = "secondary" /\ late[p]) =>
            touched[p] = {} /\ mainPc[p] \notin {"gui", "ended"}

\* C10: after an apply_queue or update_mod call no two enabled mods of
\* the InstallStack share a priority.
C10_PrioritiesUnique ==
    (pc = "done" /\ op \in {"apply_queue", "update_mod"}) =>
        \A x, y \in InstalledMods : x # y => priority[x] # priority[y]

\* An update_mod call, entered directly, for which a file was picked.
UpdatePicked == op = "update_mod" /\ target.file # ""

\* C11: update_mod installs the new mod at the priority the replaced mod
\* had, never executes a merger twice, and when it returns normally it has
\* executed exactly the mergers of the replaced mod's old state and of the
\* newly installed mod, once each, and no other.
C11_UpdateKeepsPriorityRunsUnionOnce ==
    UpdatePicked =>
        /\ \A m \in Mergers : MergeCount(m) <= 1
        /\ \A i \in 1..Len(ev) :
              ev[i].k = "merge" => ev[i].x \in target.logs \cup PkgLogs(target.file)
        /\ ReturnedNormally =>
              /\ PkgName(target.file) \in installed
              /\ priority[PkgName(target.file)] = target.priority
              /\ \A m \in Mergers :
                    MergeCount(m) =
                      IF m \in target.logs \cup PkgLogs(target.file) THEN 1 ELSE 0

C11_Witness ==
    /\ UpdatePicked /\ ReturnedNormally
    /\ target.mod = "a" /\ target.file = "a2.bnp" /\ target.logs = {"m1"}
    /\ \E n \in installed : priority[n] > target.priority
    /\ MergeCount("m1") = 1 /\ MergeCount("m2") = 1

\* The events of the current call of kind k.
Did(k) == {i \in 1..Len(ev) : ev[i].k = k}

RemergeReturned == op = "remerge" /\ ReturnedNormally

\* With a non-empty InstallStack: "all" executes every registered merger,
\* a merger's name executes that merger and no other, and MasterExport is
\* refreshed afterwards.
RemergeForced ==
    InstalledMods # {} =>
        /\ target.mod = "all" => \A m \in Mergers : MergeCount(m) = 1
        /\ target.mod \in Mergers =>
              /\ \A m \in Mergers :
                    MergeCount(m) = IF m = target.mod THEN 1 ELSE 0
              /\ ev[Len(ev)].k = "refresh"

\* C12 (as stated): a remerge that returns normally has done the above,
\* and with an empty InstallStack it has executed no merger and has torn
\* down MasterExport and relinked the empty baseline.
C12_RemergeAsStated ==
    RemergeReturned =>
        /\ RemergeForced
        /\ InstalledMods = {} =>
              /\ Did("merge") = {}
              /\ Did("teardown") # {} /\ Did("relink") # {}

\* C12 (amended): as stated, except that with an empty InstallStack the
\* teardown and relink happen exactly when the MasterExport directory
\* exists; when it does not, the call does nothing.
C12_RemergeTeardownOnlyIfExists ==
    RemergeReturned =>
        /\ RemergeForced
        /\ InstalledMods = {} =>
              /\ Did("merge") = {}
              /\ ev = IF ev[1].ok
                       THEN <<Event("exists", "", 0, TRUE),
                              Event("teardown", "", 0, TRUE),
                              Event("relink", "", 0, TRUE)>>
                       ELSE <<Event("exists", "", 0, FALSE)>>

C12_Witness ==
    /\ RemergeReturned /\ InstalledMods # {} /\ target.mod = "m2"
    /\ MergeCount("m2") = 1 /\ MergeCount("m1") = 0

C12_WitnessEmpty ==
    RemergeReturned /\ InstalledMods = {} /\ Did("relink") # {}

\* The call ended because install.install_mod rejected a package.
ValidationFailed ==
    /\ pc = "done" /\ op \in {"install_mod", "update_mod", "apply_queue"}
    /\ ev # <<>> /\ ev[Len(ev)].k = "install" /\ ~ev[Len(ev)].ok
    /\ ev[Len(ev)].x = PkgName("bad.bnp")

\* C13: after an install_mod, update_mod or apply_queue call that failed
\* on a rejected package the InstallStack equals the InstallStack the call
\* started with.
C13_ValidationFailureNoSideEffects == ValidationFailed => Stack = before

\* The listener of p is about to read a connection that has been reset.
ReadsReset(p) == lisPc[p] = "recv" /\ cur[p] # 0 /\ conns[cur[p]].rst

\* C14: when the listener reads a connection that has been reset, it
\* closes that connection, forwards nothing, keeps its endpoint and goes
\* back to accept; and nothing of a closed connection is ever forwarded.
C14_ResetEndsConnectionOnly ==
    [][/\ \A p \in Procs :
            (ReadsReset(p) /\ lisPc'[p] # "recv") =>
                /\ lisPc'[p] = "accept"
                /\ conns'[cur[p]].state = "closed"
                /\ handled'[p] = handled[p]
                /\ portOwner' = portOwner /\ listening' = listening
        /\ \A i \in 1..Len(conns) :
            conns[i].state = "closed" =>
                MsgsOf(handled'[conns[i].to], i) = MsgsOf(handled[conns[i].to], i)
      ]_vars

\* A connection was reset and closed, and a later one was then serviced.
C14_Witness ==
    \E i, j \in 1..Len(conns) :
        /\ i < j /\ conns[i].to = conns[j].to
        /\ conns[i].rst /\ conns[i].state = "closed"
        /\ ~conns[j].rst /\ conns[j].state = "closed"
        /\ MsgsOf(handled[conns[j].to], j) # <<>>

\* C15: a listener reads at most one connection at a time, and the
\* handler invocations of a process are in the order in which their
\* connections were established.
C15_SerialInEstablishmentOrder ==
    \A p \in Procs :
        /\ Cardinality({i \in 1..Len(conns) :
                          conns[i].to = p /\ conns[i].state = "open"}) <= 1
        /\ \A a, b \in 1..Len(handled[p]) :
              a < b => handled[p][a].conn <= handled[p][b].conn

\* One handler has received messages of two connections.
C15_Witness ==
    \E p \in Procs : \E a, b \in 1..Len(handled[p]) :
        handled[p][a].conn < handled[p][b].conn

\* C16: a process whose bind failed and whose listener thread has ended
\* has exited with status 0: it is never left running without a listener.
C16_BindFailureAlwaysExits ==
    \A p \in Procs :
        (role[p] = "secondary" /\ lisPc[p] = "dead") =>
            ~alive[p] /\ status[p] = 0

\* C17: an apply_queue call with moves and no installs that returns
\* normally has executed, exactly once each and before the last refresh of
\* MasterExport, every merger that has logged changes for a moved mod.
C17_MovesOnlyQueueRemerges ==
    (op = "apply_queue" /\ ReturnedNormally
        /\ MovedNow # {} /\ Did("install") = {}) =>
        \A m \in Mergers :
            (\E x \in MovedNow : m \in logged[x]) =>
                /\ MergeCount(m) = 1
                /\ \A i \in Did("merge") : \E j \in Did("refresh") : i < j

\* Merge events i < j of the same run of the merger loop.
SameRun(i, j) ==
    /\ i < j /\ ev[i].k = "merge" /\ ev[j].k = "merge"
    /\ \A h \in i..j : ev[h].k = "merge"

\* C18: in install_mod, update_mod and apply_queue a merger never runs
\* before a merger of the same run that it depends on.
C18_MergersInDependencyOrder ==
    op \in {"install_mod", "update_mod", "apply_queue"} =>
        \A i, j \in 1..Len(ev) :
            SameRun(i, j) => Rank(ev[i].x) <= Rank(ev[j].x)

\* C19: a call reports a MergeError only when the failure was raised by
\* a perform_merge: never for a failed install, nor for a failed removal
\* or relink of MasterExport.
C19_MergeErrorOnlyFromMergers ==
    (pc = "done" /\ IsFailureEnvelope(ret)
        /\ ret.value.error.type = "MergeError") => MergeFailed

PoolOps == {"install_mod", "update_mod", "apply_queue"}

\* No handler is inside its `with Pool` block.
Outside == pc \in {"done", "wl_return", "wl_except", "ma_after"}

\* C20 (as stated): a call of install_mod, update_mod or apply_queue has
\* created exactly one pool when it returns, and the pool is closed.
C20_ExactlyOnePool ==
    (pc = "done" /\ op \in PoolOps) => (pool = 1 /\ ~poolOpen)

\* C20 (amended): such a call creates at most one pool, and exactly one
\* once it has reached an install; installs and mergers are handed that
\* pool; the pool is closed whenever the handler has been left, normally
\* or by a failure.
C20_AtMostOnePoolAlwaysClosed ==
    op \in PoolOps =>
        /\ pool <= 1
        /\ poolOpen => pool = 1
        /\ \A i \in Did("install") \cup Did("merge") :
              pool = 1 /\ ev[i].pool = 1
        /\ Outside => ~poolOpen

\* apply_queue has ended on a failed merger, its one pool closed.
C20_Witness ==
    /\ pc = "done" /\ op = "apply_queue" /\ MergeFailed
    /\ pool = 1 /\ ~poolOpen

\* C21: once the main thread of a primary has ended (webview.start has
\* returned and stop_it has run), the process eventually terminates and
\* no longer holds the endpoint.
C21_PrimaryTerminatesAfterGui ==
    \A p \in Procs :
        (role[p] = "primary" /\ mainPc[p] = "ended")
            ~> (~alive[p] /\ portOwner # p)

\* The failure envelopes the current call has produced: its own, and the
\* one update_mod returned to mod_action.
Failures == {r \in {ret, innerRet} : IsFailureEnvelope(r)}

\* C22: every failure envelope has the "error_text" flag true and no
\* "success" key, whether or not the failure carried a text of its own,
\* and a finished call has appended one log record per failure.
C22_FailureFlagAlwaysTrue ==
    (pc = "done" /\ op \in Wrapped) =>
        /\ \A r \in Failures :
              r.value.error_text /\ "success" \notin DOMAIN r.value
        /\ logN = Cardinality(Failures)

\* A call has failed on an exception that carried a text of its own.
C22_Witness ==
    /\ pc = "done" /\ op = "install_mod" /\ IsFailureEnvelope(ret)
    /\ ret.value.error.custom /\ ret.value.error_text /\ logN = 1
====
